---- MODULE Spec2Model ----
(***************************************************************************)
(* Model of utils.py: the transcription workflow upload_and_retrieve and   *)
(* the vocabulary helpers create_vocabulary and wait_for_vocabulary.       *)
(* Every blocking call into the cloud provider is one step; the provider's *)
(* answer (success, error, status, object content) is chosen by \E.        *)
(* Strings the code takes apart (file names, error messages, the JSON      *)
(* text) are sequences of one-character strings or of JSON tokens.         *)
(***************************************************************************)
EXTENDS Integers, Sequences, FiniteSets, TLC

VARIABLES
    fn,            \* the entry point the caller invoked
    pc,            \* position inside that function, "returned" or "raised"
    bucket_name,   \* upload_and_retrieve argument
    file,          \* upload_and_retrieve argument, a sequence of characters
    vocabulary,    \* upload_and_retrieve argument, None or a vocabulary name
    settings,      \* upload_and_retrieve local: set of <<key, value>> pairs
    vocabulary_name, language_code, phrases, table_uri,  \* vocabulary helper arguments
    trace,         \* provider calls and sleeps made so far, in order
    uploadReqs,    \* arguments of the upload_file calls made
    jobReqs,       \* arguments of the start_transcription_job calls made
    downloadReqs,  \* arguments of the download_file calls made
    vocabReqs,     \* arguments of the create_vocabulary calls made
    provided,      \* what the provider answered last: a response or an error
    fs,            \* local files written by download_file: set of [path, content]
    opened,        \* local paths opened for reading
    log,           \* messages handed to the logging module
    result,        \* the value returned, meaningful when pc = "returned"
    raised,        \* the exception that left the function, when pc = "raised"
    inv,           \* number of the current invocation, from 1
    now,           \* the latest Unix second int(time.time()) has shown
    submitted,     \* job names sent so far, over all invocations
    pending,       \* provider: jobs accepted whose output is not yet written
    store          \* provider: output objects present in the buckets

vars == <<fn, pc, bucket_name, file, vocabulary, settings, vocabulary_name,
          language_code, phrases, table_uri, trace, uploadReqs, jobReqs,
          downloadReqs, vocabReqs, provided, fs, opened, log, result, raised,
          inv, now, submitted, pending, store>>

\* what lives on between invocations
world == <<inv, now, submitted, pending, store>>

-----------------------------------------------------------------------------
(* Bounds of the model *)

MaxNameLen == 3     \* longest input file name
MaxMsgLen == 3      \* longest create_bucket error message
MaxPolls == 3       \* most download attempts / get_vocabulary calls followed
MaxTime == 1        \* latest Unix second time.time() is observed at
MaxInvocations == 2 \* most invocations of upload_and_retrieve in a row

None == "None"

NameChars == {"a", ".", "\\"}
MsgChars == {"(", "E", ")", " "}

RECURSIVE SeqsUpTo(_, _)
SeqsUpTo(S, n) ==
    IF n = 0 THEN {<<>>}
    ELSE LET shorter == SeqsUpTo(S, n - 1)
         IN  shorter \cup {Append(s, c) : s \in {t \in shorter : Len(t) = n - 1}, c \in S}

FileNames == SeqsUpTo(NameChars, MaxNameLen) \ {<<>>}
ErrorMessages == SeqsUpTo(MsgChars, MaxMsgLen)
Buckets == {"bucket-1", "bucket-2"}
VocabularyArgs == {None, "vocabulary_test"}
ProviderErrors == {"ClientError", "EndpointConnectionError"}

-----------------------------------------------------------------------------
(* Python string helpers *)

\* s.split(sep) for a one-character separator: the segments between
\* occurrences of sep, at least one segment.
RECURSIVE Split(_, _)
Split(s, sep) ==
    IF \A i \in 1..Len(s) : s[i] # sep THEN <<s>>
    ELSE LET i == CHOOSE j \in 1..Len(s) : s[j] = sep /\ \A k \in 1..(j - 1) : s[k] # sep
         IN  <<SubSeq(s, 1, i - 1)>> \o Split(SubSeq(s, i + 1, Len(s)), sep)

Last(s) == s[Len(s)]

\* \w of the regular expression, over the message alphabet
IsWordChar(c) == c \notin {"(", ")", " "}

\* re.findall(r'\((\w+)\)', msg): the parenthesised word tokens, left to
\* right, non-overlapping.
RECURSIVE FindAllFrom(_, _)
FindAllFrom(msg, i) ==
    IF i > Len(msg) THEN <<>>
    ELSE IF msg[i] # "(" THEN FindAllFrom(msg, i + 1)
    ELSE LET stops == {j \in (i + 1)..Len(msg) : ~IsWordChar(msg[j])}
             j == IF stops = {} THEN Len(msg) + 1
                  ELSE CHOOSE x \in stops : \A y \in stops : x <= y
         IN  IF j <= Len(msg) /\ msg[j] = ")" /\ j > i + 1
             THEN <<SubSeq(msg, i + 1, j - 1)>> \o FindAllFrom(msg, j + 1)
             ELSE FindAllFrom(msg, i + 1)

FindAll(msg) == FindAllFrom(msg, 1)

Event(op, res, secs) == [op |-> op, res |-> res, secs |-> secs]
LogEntry(level, msg) == [level |-> level, msg |-> msg]

-----------------------------------------------------------------------------
(* json.loads and the subscripts applied to its result.  A JSON text is a  *)
(* sequence of tokens; a parsed value is the token span that denotes it.   *)

Punct(c) == [k |-> c, v |-> ""]
Str(s) == [k |-> "str", v |-> s]
Null == [k |-> "null", v |-> ""]

\* The index just past the JSON value that starts at toks[i]; 0 when no
\* value parses there.
RECURSIVE ValueEnd(_, _), MembersEnd(_, _), ElementsEnd(_, _)
ValueEnd(toks, i) ==
    IF i > Len(toks) THEN 0
    ELSE IF toks[i].k \in {"str", "null"} THEN i + 1
    ELSE IF toks[i].k = "{"
         THEN IF i + 1 <= Len(toks) /\ toks[i + 1].k = "}" THEN i + 2
              ELSE MembersEnd(toks, i + 1)
    ELSE IF toks[i].k = "["
         THEN IF i + 1 <= Len(toks) /\ toks[i + 1].k = "]" THEN i + 2
              ELSE ElementsEnd(toks, i + 1)
    ELSE 0

\* i is where a "key": value member of an object starts
MembersEnd(toks, i) ==
    IF i + 1 > Len(toks) \/ toks[i].k # "str" \/ toks[i + 1].k # ":" THEN 0
    ELSE LET e == ValueEnd(toks, i + 2)
         IN  IF e = 0 \/ e > Len(toks) THEN 0
             ELSE IF toks[e].k = "," THEN MembersEnd(toks, e + 1)
             ELSE IF toks[e].k = "}" THEN e + 1
             ELSE 0

\* i is where an element of an array starts
ElementsEnd(toks, i) ==
    LET e == ValueEnd(toks, i)
    IN  IF e = 0 \/ e > Len(toks) THEN 0
        ELSE IF toks[e].k = "," THEN ElementsEnd(toks, e + 1)
        ELSE IF toks[e].k = "]" THEN e + 1
        ELSE 0

\* json.loads accepts the text iff one value spans all of it
JsonValid(toks) == ValueEnd(toks, 1) = Len(toks) + 1

\* Positions of the values of the members named key in the object whose
\* first member starts at i (the text is valid JSON).
RECURSIVE MemberValues(_, _, _)
MemberValues(toks, i, key) ==
    LET e == ValueEnd(toks, i + 2)
        here == IF toks[i].v = key THEN {i + 2} ELSE {}
    IN  IF toks[e].k = "," THEN here \cup MemberValues(toks, e + 1, key)
        ELSE here

Lookup(err, at) == [err |-> err, at |-> at]

\* value[key] for a str key: a dict yields the value of the last member
\* with that key or KeyError, anything else TypeError.
GetItem(toks, i, key) ==
    IF toks[i].k # "{" THEN Lookup("TypeError", 0)
    ELSE IF toks[i + 1].k = "}" THEN Lookup("KeyError", 0)
    ELSE LET found == MemberValues(toks, i + 1, key)
         IN  IF found = {} THEN Lookup("KeyError", 0)
             ELSE Lookup(None, CHOOSE p \in found : \A q \in found : q <= p)

\* value[-1] in place of value[0]
GetLast(toks, i) ==
    IF toks[i].k = "["
    THEN IF toks[i + 1].k = "]" THEN Lookup("IndexError", 0)
         ELSE LET starts == {p \in (i + 1)..(ValueEnd(toks, i) - 2) :
                               ValueEnd(toks, p) = ValueEnd(toks, i) - 1}
              IN  Lookup(None, CHOOSE p \in starts : \A q \in starts : p <= q)
    ELSE IF toks[i].k = "{" THEN Lookup("KeyError", 0)
    ELSE IF toks[i].k = "str"
         THEN IF toks[i].v = "" THEN Lookup("IndexError", 0) ELSE Lookup(None, -1)
    ELSE Lookup("TypeError", 0)

\* value[0]: the first element of a list or IndexError; a dict has no key
\* 0; a str yields its first character, at -1 marks that derived str.
GetFirst(toks, i) ==
    IF toks[i].k = "["
    THEN IF toks[i + 1].k = "]" THEN Lookup("IndexError", 0) ELSE Lookup(None, i + 1)
    ELSE IF toks[i].k = "{" THEN Lookup("KeyError", 0)
    ELSE IF toks[i].k = "str"
         THEN IF toks[i].v = "" THEN Lookup("IndexError", 0) ELSE Lookup(None, -1)
    ELSE Lookup("TypeError", 0)

\* json.loads(out)["results"]["transcripts"][0]['transcript']
ExtractTranscript(toks) ==
    IF ~JsonValid(toks) THEN Lookup("JSONDecodeError", 0)
    ELSE LET r1 == GetItem(toks, 1, "results") IN
         IF r1.err # None THEN r1
    ELSE LET r2 == GetItem(toks, r1.at, "transcripts") IN
         IF r2.err # None THEN r2
    ELSE LET r3 == GetFirst(toks, r2.at) IN
         IF r3.err # None THEN r3
    ELSE IF r3.at = -1 THEN Lookup("TypeError", 0)
    ELSE GetItem(toks, r3.at, "transcript")

\* the Python value a successful lookup denotes
ValueAt(toks, i) == SubSeq(toks, i, ValueEnd(toks, i) - 1)

(* Contents the provider may leave in the output object *)

Obj(members) == <<Punct("{")>> \o members \o <<Punct("}")>>
Arr(elements) == <<Punct("[")>> \o elements \o <<Punct("]")>>
Member(key, value) == <<Str(key), Punct(":")>> \o value
Comma == <<Punct(",")>>

DocHello ==
    Obj(Member("results", Obj(Member("transcripts",
        Arr(Obj(Member("transcript", <<Str("hello world")>>)))))))
DocTwoTranscripts ==
    Obj(Member("jobName", <<Str("job")>>) \o Comma \o
        Member("results", Obj(Member("transcripts",
            Arr(Obj(Member("transcript", <<Str("first")>>)) \o Comma \o
                Obj(Member("transcript", <<Str("second")>>)))) \o Comma \o
            Member("items", Arr(<<>>)))))
DocNullTranscript ==
    Obj(Member("results", Obj(Member("transcripts",
        Arr(Obj(Member("transcript", <<Null>>)))))))
DocDuplicateKey ==
    Obj(Member("results", Obj(Member("transcripts",
        Arr(Obj(Member("transcript", <<Str("old")>>) \o Comma \o
                Member("transcript", <<Str("new")>>)))))))
DocNoTranscripts == Obj(Member("results", Obj(Member("transcripts", Arr(<<>>)))))
DocNoResults == Obj(Member("status", <<Str("FAILED")>>))
DocNoTranscriptKey ==
    Obj(Member("results", Obj(Member("transcripts",
        Arr(Obj(Member("text", <<Str("hello world")>>)))))))
DocTopLevelList == Arr(DocHello)
DocStringTranscripts ==
    Obj(Member("results", Obj(Member("transcripts", <<Str("hello world")>>))))
DocTruncated == SubSeq(DocHello, 1, Len(DocHello) - 2)
DocExtraData == DocHello \o <<Punct("}")>>
DocEmpty == <<>>

Documents ==
    {DocHello, DocTwoTranscripts, DocNullTranscript, DocDuplicateKey,
     DocNoTranscripts, DocNoResults, DocNoTranscriptKey, DocTopLevelList,
     DocStringTranscripts, DocTruncated, DocExtraData, DocEmpty}

-----------------------------------------------------------------------------
(* upload_and_retrieve *)

\* file.split("\\")[-1], the key the file is uploaded under
UploadKey(f) == Last(Split(f, "\\"))

\* file.split('.')[0] mistaken for the name without its last extension
FileStem_BeforeLastDot(f) ==
    LET parts == Split(f, ".")
    IN  IF Len(parts) = 1 THEN f ELSE SubSeq(f, 1, Len(f) - Len(Last(parts)) - 1)

\* file.split('.')[0]
FileStem(f) == Split(f, ".")[1]

TxtSuffix == <<".", "t", "x", "t">>

\* OutputKey of the job submission
OutputKey(f) == FileStem(f) \o TxtSuffix
\* key of the s3.Object that is polled
DownloadKey(f) == FileStem(f) \o TxtSuffix
\* local file name download_file writes to
DownloadPath(f) == FileStem(f) \o TxtSuffix
\* local file name opened for reading
ReadPath(f) == FileStem(f) \o TxtSuffix

\* the job name with the time taken to the minute instead of the second
JobName_ByMinute(f, t) == <<"transcribing_">> \o FileStem(f) \o <<"_", ToString(t \div 60)>>

\* TranscriptionJobName: transcribing_<stem>_<int(time.time())>
JobName(f, t) == <<"transcribing_">> \o FileStem(f) \o <<"_", ToString(t)>>

\* Media.MediaFileUri
MediaFileUri(b, f) == <<"s3://", b, "/">> \o f

\* settings as built before the job submission
BuildSettings(v) == IF v # None THEN {<<"VocabularyName", v>>} ELSE {}

\* the Settings argument handed to start_transcription_job
JobSettings(s) == {}

JobRequest(b, f, s, t) ==
    [TranscriptionJobName |-> JobName(f, t),
     LanguageCode |-> "en-US",
     MediaFormat |-> "flac",
     Settings |-> JobSettings(s),
     MediaFileUri |-> MediaFileUri(b, f),
     OutputBucketName |-> b,
     OutputKey |-> OutputKey(f)]

UploadUnchanged == <<fn, bucket_name, file, vocabulary_name, language_code,
                     phrases, table_uri, vocabReqs, provided, inv>>

\* s3_client.create_bucket inside try/except Exception; the handler logs
\* re.findall(...)[0] of the error message.
CreateBucket ==
    /\ fn = "upload_and_retrieve" /\ pc = "create_bucket"
    /\ \/ /\ trace' = Append(trace, Event("create_bucket", "ok", 0))
          /\ pc' = "upload_file"
          /\ UNCHANGED <<log, raised>>
       \/ \E msg \in ErrorMessages :
            LET tokens == FindAll(msg)
            IN  /\ trace' = Append(trace, Event("create_bucket", "error", 0))
                /\ IF Len(tokens) > 0
                   THEN /\ log' = Append(log, LogEntry("WARNING", tokens[1]))
                        /\ pc' = "upload_file"
                        /\ UNCHANGED raised
                   ELSE /\ pc' = "raised"
                        /\ raised' = "IndexError"
                        /\ UNCHANGED log
    /\ UNCHANGED <<UploadUnchanged, now, submitted, pending, store, vocabulary, settings, uploadReqs, jobReqs,
                   downloadReqs, fs, opened, result>>

\* upload_file wrapped in the same swallow-and-continue handler as create_bucket
UploadFile_Swallowed ==
    /\ fn = "upload_and_retrieve" /\ pc = "upload_file"
    /\ uploadReqs' = Append(uploadReqs,
           [Filename |-> file, Bucket |-> bucket_name, Key |-> Last(Split(file, "\\"))])
    /\ \E res \in {"ok"} \cup ProviderErrors :
         trace' = Append(trace, [op |-> "upload_file", res |-> res, secs |-> 0])
    /\ pc' = "start_transcription_job"
    /\ UNCHANGED <<fn, bucket_name, file, vocabulary_name, language_code, phrases,
                   table_uri, vocabReqs, provided, vocabulary, settings, jobReqs,
                   downloadReqs, fs, opened, log, result, raised, world>>

\* s3_client.upload_file(file, bucket_name, file.split("\\")[-1]); an error
\* leaves the function.
UploadFile ==
    /\ fn = "upload_and_retrieve" /\ pc = "upload_file"
    /\ uploadReqs' = Append(uploadReqs,
           [Filename |-> file, Bucket |-> bucket_name, Key |-> UploadKey(file)])
    /\ \/ /\ trace' = Append(trace, Event("upload_file", "ok", 0))
          /\ pc' = "start_transcription_job"
          /\ UNCHANGED raised
       \/ \E e \in ProviderErrors :
            /\ trace' = Append(trace, Event("upload_file", e, 0))
            /\ pc' = "raised"
            /\ raised' = e
    /\ UNCHANGED <<UploadUnchanged, now, submitted, pending, store, vocabulary, settings, jobReqs, downloadReqs,
                   fs, opened, log, result>>

\* the else branch rebinds vocabulary to an empty mapping
EmptyMapping == "{}"

\* the output object an accepted job will write, and for which invocation
OutputOf(req, n) == [Bucket |-> req.OutputBucketName, Key |-> req.OutputKey, by |-> n]

\* the objects other than the one at (b, k)
Others(objects, b, k) == {o \in objects : o.Bucket # b \/ o.Key # k}

\* settings / vocabulary bookkeeping, then
\* transcribe_client.start_transcription_job(...); an error leaves the function.
StartTranscriptionJob ==
    /\ fn = "upload_and_retrieve" /\ pc = "start_transcription_job"
    /\ settings' = BuildSettings(vocabulary)
    /\ vocabulary' = IF vocabulary # None THEN vocabulary ELSE EmptyMapping
    /\ \E t \in now..MaxTime :
         /\ now' = t
         /\ jobReqs' = Append(jobReqs, JobRequest(bucket_name, file, settings', t))
         /\ submitted' = Append(submitted,
                [by |-> inv, file |-> file, at |-> t, name |-> JobName(file, t)])
    /\ \/ /\ trace' = Append(trace, Event("start_transcription_job", "ok", 0))
          /\ pc' = "download_file"
          /\ pending' = pending \cup {OutputOf(jobReqs'[Len(jobReqs')], inv)}
          /\ UNCHANGED raised
       \/ \E e \in ProviderErrors :
            /\ trace' = Append(trace, Event("start_transcription_job", e, 0))
            /\ pc' = "raised"
            /\ raised' = e
            /\ UNCHANGED pending
    /\ UNCHANGED <<UploadUnchanged, uploadReqs, downloadReqs, fs, opened, log, result,
                   store>>

\* seconds slept after a failed download
DownloadRetryDelay == 1

\* the polling loop with the except branch giving up instead of retrying
AfterDownload_GiveUp(ok) == IF ok THEN "read" ELSE "raised"

\* the polling loop with the sleep left out of the except branch
AfterDownload_NoSleep(ok) == IF ok THEN "read" ELSE "download_file"

\* where the polling loop goes after a download attempt: break on success,
\* the bare except (log, sleep, retry) on any failure
AfterDownload(ok) == IF ok THEN "read" ELSE "sleep"

Count(op) == Cardinality({i \in 1..Len(trace) : trace[i].op = op})

\* The objects a download of (b, k) can find at this moment: the one already
\* in the store, or the output of a pending job for that key that has
\* finished in the meantime, with any content.
Downloadable(b, k) ==
    {o \in store : o.Bucket = b /\ o.Key = k}
        \cup {[Bucket |-> b, Key |-> k, content |-> doc, by |-> p.by] :
                 doc \in Documents, p \in {q \in pending : q.Bucket = b /\ q.Key = k}}

\* s3.Object(bucket_name, key).download_file(path) inside while True / try
DownloadFile ==
    /\ fn = "upload_and_retrieve" /\ pc = "download_file"
    /\ Count("download_file") < MaxPolls
    /\ downloadReqs' = Append(downloadReqs,
           [Bucket |-> bucket_name, Key |-> DownloadKey(file),
            Filename |-> DownloadPath(file)])
    /\ \/ \E o \in Downloadable(bucket_name, DownloadKey(file)) :
            /\ trace' = Append(trace, Event("download_file", "ok", 0))
            /\ store' = Others(store, o.Bucket, o.Key) \cup {o}
            /\ pending' = pending \ {[Bucket |-> o.Bucket, Key |-> o.Key, by |-> o.by]}
            /\ fs' = {e \in fs : e.path # DownloadPath(file)}
                       \cup {[path |-> DownloadPath(file), content |-> o.content,
                               by |-> o.by]}
            /\ pc' = AfterDownload(TRUE)
            /\ UNCHANGED log
       \/ \E e \in ProviderErrors :
            /\ trace' = Append(trace, Event("download_file", e, 0))
            /\ pc' = AfterDownload(FALSE)
            /\ log' = Append(log, LogEntry("INFO", <<"Waiting for transcription...">>))
            /\ UNCHANGED <<fs, store, pending>>
    /\ UNCHANGED <<UploadUnchanged, vocabulary, settings, uploadReqs, jobReqs,
                   opened, result, raised, now, submitted>>

\* the retry loop wrapped around the job submission as well
Sleep_Resubmit ==
    /\ fn = "upload_and_retrieve" /\ pc = "sleep"
    /\ trace' = Append(trace, Event("sleep", "ok", DownloadRetryDelay))
    /\ pc' = "start_transcription_job"
    /\ UNCHANGED <<UploadUnchanged, now, submitted, pending, store, vocabulary, settings, uploadReqs, jobReqs,
                   downloadReqs, fs, opened, log, result, raised>>

\* time.sleep(1) in the except branch of the polling loop
Sleep ==
    /\ fn = "upload_and_retrieve" /\ pc = "sleep"
    /\ trace' = Append(trace, Event("sleep", "ok", DownloadRetryDelay))
    /\ pc' = "download_file"
    /\ UNCHANGED <<UploadUnchanged, now, submitted, pending, store, vocabulary, settings, uploadReqs, jobReqs,
                   downloadReqs, fs, opened, log, result, raised>>

\* open(path), read every line, json.loads(out)[...]; any error of the
\* open or of the extraction leaves the function.
ReadTranscript ==
    /\ fn = "upload_and_retrieve" /\ pc = "read"
    /\ opened' = Append(opened, ReadPath(file))
    /\ LET found == {e \in fs : e.path = ReadPath(file)}
       IN  IF found = {}
           THEN /\ pc' = "raised"
                /\ raised' = "FileNotFoundError"
                /\ UNCHANGED result
           ELSE LET out == (CHOOSE e \in found : TRUE).content
                    r == ExtractTranscript(out)
                IN  IF r.err # None
                    THEN /\ pc' = "raised"
                         /\ raised' = r.err
                         /\ UNCHANGED result
                    ELSE /\ pc' = "returned"
                         /\ result' = ValueAt(out, r.at)
                         /\ UNCHANGED raised
    /\ UNCHANGED <<UploadUnchanged, now, submitted, pending, store, vocabulary, settings, trace, uploadReqs, jobReqs,
                   downloadReqs, fs, log>>

-----------------------------------------------------------------------------
(* create_vocabulary *)

LanguageCodes == {"en-US", "nl-NL"}
PhrasesArgs == {None, "[]", "['Mackie', 'Cathy']"}
TableUriArgs == {None, "s3://bucket/vocabulary.txt"}
VocabularyStates == {"PENDING", "READY", "FAILED", "UNKNOWN"}

\* vocab_args with the elif written as a second if
VocabArgs_BothSent(name, code, phr, uri) ==
    {<<"VocabularyName", name>>, <<"LanguageCode", code>>}
        \cup (IF phr # None THEN {<<"Phrases", phr>>} ELSE {})
        \cup (IF uri # None THEN {<<"VocabularyFileUri", uri>>} ELSE {})

\* vocab_args as built from the arguments
VocabArgs(name, code, phr, uri) ==
    {<<"VocabularyName", name>>, <<"LanguageCode", code>>}
        \cup (IF phr # None THEN {<<"Phrases", phr>>}
              ELSE IF uri # None THEN {<<"VocabularyFileUri", uri>>}
              ELSE {})

\* the responses the provider may give to a create request
CreateResponses(name, code) ==
    {[VocabularyName |-> name, LanguageCode |-> code, VocabularyState |-> st] :
        st \in {"PENDING", "READY", "FAILED"}}

\* create_vocabulary with the raise missing from the except branch
CreateVocabulary_ErrorSwallowed ==
    /\ fn = "create_vocabulary" /\ pc = "create_vocabulary"
    /\ vocabReqs' = Append(vocabReqs,
           VocabArgs(vocabulary_name, language_code, phrases, table_uri))
    /\ \/ \E response \in CreateResponses(vocabulary_name, language_code) :
            /\ trace' = Append(trace, Event("create_vocabulary", "ok", 0))
            /\ provided' = response
            /\ result' = response
       \/ \E e \in ProviderErrors :
            /\ trace' = Append(trace, Event("create_vocabulary", e, 0))
            /\ provided' = e
            /\ result' = None
    /\ pc' = "returned"
    /\ UNCHANGED <<world, fn, bucket_name, file, vocabulary, settings, vocabulary_name,
                   language_code, phrases, table_uri, uploadReqs, jobReqs,
                   downloadReqs, fs, opened, log, raised>>

\* try: create_vocabulary(**vocab_args), log / except: log, raise / else: return
CreateVocabulary ==
    /\ fn = "create_vocabulary" /\ pc = "create_vocabulary"
    /\ vocabReqs' = Append(vocabReqs,
           VocabArgs(vocabulary_name, language_code, phrases, table_uri))
    /\ \/ \E response \in CreateResponses(vocabulary_name, language_code) :
            /\ trace' = Append(trace, Event("create_vocabulary", "ok", 0))
            /\ provided' = response
            /\ log' = Append(log, LogEntry("INFO",
                          <<"Created custom vocabulary", response.VocabularyName>>))
            /\ pc' = "returned"
            /\ result' = response
            /\ UNCHANGED raised
       \/ \E e \in ProviderErrors :
            /\ trace' = Append(trace, Event("create_vocabulary", e, 0))
            /\ provided' = e
            /\ log' = Append(log, LogEntry("INFO",
                          <<"Couldn't create custom vocabulary", vocabulary_name>>))
            /\ pc' = "raised"
            /\ raised' = e
            /\ UNCHANGED result
    /\ UNCHANGED <<world, fn, bucket_name, file, vocabulary, settings, vocabulary_name,
                   language_code, phrases, table_uri, uploadReqs, jobReqs,
                   downloadReqs, fs, opened>>

-----------------------------------------------------------------------------
(* wait_for_vocabulary *)

\* seconds slept after a PENDING response
VocabularyRetryDelay == 10

\* the chain with the PENDING branch not sleeping
AfterVocabularyState_NoSleep(state) ==
    IF state = "READY" THEN "returned"
    ELSE IF state = "FAILED" THEN "raised"
    ELSE "get_vocabulary"

\* the chain with FAILED treated like PENDING
AfterVocabularyState_FailedRetried(state) ==
    IF state = "READY" THEN "returned"
    ELSE IF state \in {"FAILED", "PENDING"} THEN "sleep_vocabulary"
    ELSE "get_vocabulary"

\* the chain with a final else that sleeps like the PENDING branch
AfterVocabularyState_ElseSleeps(state) ==
    IF state = "READY" THEN "returned"
    ELSE IF state = "FAILED" THEN "raised"
    ELSE "sleep_vocabulary"

\* the if / elif chain on response['VocabularyState']
AfterVocabularyState(state) ==
    IF state = "READY" THEN "returned"
    ELSE IF state = "FAILED" THEN "raised"
    ELSE IF state = "PENDING" THEN "sleep_vocabulary"
    ELSE "get_vocabulary"

\* one iteration of while True up to the sleep: get_vocabulary, log the
\* state, branch on it; an error of get_vocabulary leaves the function.
GetVocabulary ==
    /\ fn = "wait_for_vocabulary" /\ pc = "get_vocabulary"
    /\ Count("get_vocabulary") < MaxPolls
    /\ \/ \E state \in VocabularyStates :
            /\ trace' = Append(trace, Event("get_vocabulary", state, 0))
            /\ provided' = state
            /\ pc' = AfterVocabularyState(state)
            /\ log' = log \o <<LogEntry("INFO", <<state>>)>> \o
                        (IF state = "FAILED"
                         THEN <<LogEntry("CRITICAL", <<"response", state>>),
                                LogEntry("CRITICAL", <<"Vocabulary", vocabulary_name, state>>)>>
                         ELSE <<>>)
            /\ raised' = IF pc' = "raised" THEN "RuntimeError" ELSE raised
       \/ \E e \in ProviderErrors :
            /\ trace' = Append(trace, Event("get_vocabulary", e, 0))
            /\ provided' = e
            /\ pc' = "raised"
            /\ raised' = e
            /\ UNCHANGED log
    /\ UNCHANGED <<world, fn, bucket_name, file, vocabulary, settings, vocabulary_name,
                   language_code, phrases, table_uri, uploadReqs, jobReqs,
                   downloadReqs, vocabReqs, fs, opened, result>>

\* time.sleep(10) of the PENDING branch
VocabularySleep ==
    /\ fn = "wait_for_vocabulary" /\ pc = "sleep_vocabulary"
    /\ trace' = Append(trace, Event("sleep", "ok", VocabularyRetryDelay))
    /\ pc' = "get_vocabulary"
    /\ UNCHANGED <<world, fn, bucket_name, file, vocabulary, settings, vocabulary_name,
                   language_code, phrases, table_uri, uploadReqs, jobReqs,
                   downloadReqs, vocabReqs, provided, fs, opened, log, result, raised>>

-----------------------------------------------------------------------------
(* The caller invokes one entry point with arguments of its choice *)

NoUploadArgs ==
    /\ bucket_name = None /\ file = <<>> /\ vocabulary = None

NoVocabularyArgs ==
    /\ vocabulary_name = None /\ language_code = None
    /\ phrases = None /\ table_uri = None

Init ==
    /\ \/ /\ fn = "upload_and_retrieve" /\ pc = "create_bucket"
          /\ bucket_name \in Buckets
          /\ file \in FileNames
          /\ vocabulary \in VocabularyArgs
          /\ NoVocabularyArgs
       \/ /\ fn = "create_vocabulary" /\ pc = "create_vocabulary"
          /\ vocabulary_name \in VocabularyArgs \ {None}
          /\ language_code \in LanguageCodes
          /\ phrases \in PhrasesArgs
          /\ table_uri \in TableUriArgs
          /\ NoUploadArgs
       \/ /\ fn = "wait_for_vocabulary" /\ pc = "get_vocabulary"
          /\ vocabulary_name \in VocabularyArgs \ {None}
          /\ language_code = None /\ phrases = None /\ table_uri = None
          /\ NoUploadArgs
    /\ settings = {}
    /\ trace = <<>> /\ uploadReqs = <<>> /\ jobReqs = <<>>
    /\ downloadReqs = <<>> /\ vocabReqs = <<>>
    /\ provided = None
    /\ fs = {} /\ opened = <<>> /\ log = <<>>
    /\ result = None /\ raised = None
    /\ inv = 1 /\ now = 0
    /\ submitted = <<>> /\ pending = {} /\ store = {}

Next ==
    \/ CreateBucket
    \/ UploadFile
    \/ StartTranscriptionJob
    \/ DownloadFile
    \/ Sleep
    \/ ReadTranscript
    \/ CreateVocabulary
    \/ GetVocabulary
    \/ VocabularySleep

Spec == Init /\ [][Next]_vars

-----------------------------------------------------------------------------
(* The caller invokes upload_and_retrieve again with the same arguments;   *)
(* the buckets, the local files and the clock are what the last call left. *)

Reinvoke ==
    /\ fn = "upload_and_retrieve" /\ pc \in {"returned", "raised"}
    /\ inv < MaxInvocations
    /\ inv' = inv + 1
    /\ pc' = "create_bucket"
    /\ vocabulary' = IF vocabulary = EmptyMapping THEN None ELSE vocabulary
    /\ settings' = {}
    /\ trace' = <<>> /\ uploadReqs' = <<>> /\ jobReqs' = <<>>
    /\ downloadReqs' = <<>> /\ opened' = <<>> /\ log' = <<>>
    /\ result' = None /\ raised' = None
    /\ UNCHANGED <<fn, bucket_name, file, vocabulary_name, language_code, phrases,
                   table_uri, vocabReqs, provided, fs, now, submitted, pending, store>>

\* the file names the repeated calls are followed for
RepeatFiles == {<<"a">>, <<"a", ".", "a">>}

InitRepeat == Init /\ fn = "upload_and_retrieve" /\ file \in RepeatFiles

NextRepeat ==
    \/ CreateBucket
    \/ UploadFile
    \/ StartTranscriptionJob
    \/ DownloadFile
    \/ Sleep
    \/ ReadTranscript
    \/ Reinvoke

SpecRepeat == InitRepeat /\ [][NextRepeat]_vars

-----------------------------------------------------------------------------
(* Properties *)

Uploading == fn = "upload_and_retrieve"
Creating == fn = "create_vocabulary"
Waiting == fn = "wait_for_vocabulary"
IsPoll(e) == e.op \in {"download_file", "sleep"}
Polls == SelectSeq(trace, IsPoll)
IsGet(e) == e.op = "get_vocabulary"
Gets == SelectSeq(trace, IsGet)
Failed(e) == e.res \in ProviderErrors
TxtOf(stem) == stem \o <<".", "t", "x", "t">>

\* C1: whenever the caller supplies a vocabulary name, the single
\* start_transcription_job request carries it as its VocabularyName setting;
\* without a vocabulary the request carries no vocabulary setting.
C1_VocabularyCarried ==
    /\ Len(jobReqs) <= 1
    /\ \A i \in 1..Len(jobReqs) :
         jobReqs[i].Settings =
             (IF vocabulary \notin {None, EmptyMapping}
              THEN {<<"VocabularyName", vocabulary>>} ELSE {})

\* C2: every error raised by create_bucket, whatever its message text, is
\* caught and ignored: the workflow does not raise at the bucket step and
\* goes on to call upload_file.
C2_BucketErrorIgnored ==
    (Uploading /\ Len(trace) = 1 /\ trace[1] = Event("create_bucket", "error", 0))
        => pc = "upload_file"

\* C3: when the download fails on the first N attempts and succeeds on
\* attempt N+1, the workflow makes exactly N+1 download attempts and exactly
\* N one-second sleeps, each sleep directly after a failed attempt and none
\* after the successful one, and then leaves the loop.
C3_PollingExact ==
    \A n \in 0..Len(downloadReqs) :
        (/\ Uploading
         /\ Len(downloadReqs) > n
         /\ \A j \in 1..n : Failed(SelectSeq(Polls, LAMBDA e : e.op = "download_file")[j])
         /\ SelectSeq(Polls, LAMBDA e : e.op = "download_file")[n + 1].res = "ok")
        => /\ Len(downloadReqs) = n + 1
           /\ Len(Polls) = 2 * n + 1
           /\ \A j \in 1..n :
                /\ Polls[2 * j - 1].op = "download_file" /\ Failed(Polls[2 * j - 1])
                /\ Polls[2 * j] = [op |-> "sleep", res |-> "ok", secs |-> 1]
           /\ Polls[2 * n + 1] = [op |-> "download_file", res |-> "ok", secs |-> 0]
           /\ pc \notin {"download_file", "sleep"}

\* a run that left the loop after two failed attempts
C3_Witness ==
    /\ Uploading /\ pc = "read"
    /\ Len(downloadReqs) = 3
    /\ Failed(Polls[1]) /\ Failed(Polls[3])

\* the substring of f before its first '.', all of f when it has none
StemBeforeFirstDot(f) ==
    LET n == CHOOSE n \in 0..Len(f) :
                 /\ \A k \in 1..n : f[k] # "."
                 /\ (n = Len(f) \/ f[n + 1] = ".")
    IN  SubSeq(f, 1, n)

\* C4: for every input file name f the OutputKey of the job submission, the
\* object key polled, the local path the download writes and the local path
\* that is read are all the string stem(f) + ".txt", stem(f) being the
\* substring of f before its first '.'.
C4_OneDerivedName ==
    Uploading =>
        LET name == TxtOf(StemBeforeFirstDot(file))
        IN  /\ \A i \in 1..Len(jobReqs) : jobReqs[i].OutputKey = name
            /\ \A i \in 1..Len(downloadReqs) :
                 /\ downloadReqs[i].Key = name
                 /\ downloadReqs[i].Filename = name
            /\ \A i \in 1..Len(opened) : opened[i] = name
            /\ \A e \in fs : e.path = name

\* a run that submitted, polled, downloaded and read for a name with two dots
C4_Witness ==
    /\ Uploading /\ file = <<"a", ".", ".">>
    /\ Len(jobReqs) = 1 /\ Len(downloadReqs) >= 1 /\ Len(opened) = 1 /\ fs # {}

\* C5: given k PENDING responses followed by READY, wait_for_vocabulary calls
\* get_vocabulary exactly k+1 times, sleeps 10 seconds exactly k times, once
\* after each PENDING response, and then returns without raising.
C5_PendingThenReady ==
    \A k \in 0..Len(Gets) :
        (/\ Waiting
         /\ Len(Gets) > k
         /\ \A j \in 1..k : Gets[j].res = "PENDING"
         /\ Gets[k + 1].res = "READY")
        => /\ Len(Gets) = k + 1
           /\ Len(trace) = 2 * k + 1
           /\ \A j \in 1..k :
                /\ trace[2 * j - 1] = [op |-> "get_vocabulary", res |-> "PENDING", secs |-> 0]
                /\ trace[2 * j] = [op |-> "sleep", res |-> "ok", secs |-> 10]
           /\ trace[2 * k + 1] = [op |-> "get_vocabulary", res |-> "READY", secs |-> 0]
           /\ pc = "returned" /\ raised = None

\* PENDING, PENDING, READY
C5_Witness ==
    /\ Waiting /\ pc = "returned"
    /\ Len(Gets) = 3 /\ Gets[1].res = "PENDING" /\ Gets[2].res = "PENDING"

\* C6: READY and FAILED are terminal: at the first FAILED response
\* wait_for_vocabulary raises RuntimeError, at the first READY response it
\* returns, and in both cases no get_vocabulary call and no sleep follows.
C6_TerminalStates ==
    Waiting =>
        \A i \in 1..Len(trace) :
            (trace[i].op = "get_vocabulary" /\ trace[i].res \in {"READY", "FAILED"})
            => /\ i = Len(trace)
               /\ trace[i].res = "FAILED" => (pc = "raised" /\ raised = "RuntimeError")
               /\ trace[i].res = "READY" => (pc = "returned" /\ raised = None)

\* FAILED arrives after a PENDING response and a sleep
C6_Witness ==
    /\ Waiting /\ pc = "raised" /\ raised = "RuntimeError"
    /\ Len(trace) = 3 /\ trace[1].res = "PENDING" /\ trace[3].res = "FAILED"

\* C7: an error of upload_file propagates to the caller with no job
\* submitted and no download attempted; an error of start_transcription_job
\* propagates with no download attempted.
C7_FailFast ==
    Uploading =>
        \A i \in 1..Len(trace) :
            /\ (trace[i].op = "upload_file" /\ Failed(trace[i]))
               => /\ i = Len(trace)
                  /\ pc = "raised" /\ raised = trace[i].res
                  /\ jobReqs = <<>> /\ downloadReqs = <<>>
            /\ (trace[i].op = "start_transcription_job" /\ Failed(trace[i]))
               => /\ i = Len(trace)
                  /\ pc = "raised" /\ raised = trace[i].res
                  /\ downloadReqs = <<>>

\* upload_file raised after a bucket-creation error had been swallowed
C7_Witness ==
    /\ Uploading /\ pc = "raised"
    /\ Len(trace) = 2 /\ trace[1].res = "error"
    /\ trace[2].op = "upload_file" /\ raised = "ClientError"

\* results.transcripts[0].transcript of each content the output object may
\* have, as Python evaluates it; contents not listed make the lookup raise
ExpectedTranscripts ==
    {<<DocHello, <<Str("hello world")>>>>,
     <<DocTwoTranscripts, <<Str("first")>>>>,
     <<DocNullTranscript, <<Null>>>>,
     <<DocDuplicateKey, <<Str("new")>>>>}

ExtractionErrors ==
    {"JSONDecodeError", "KeyError", "IndexError", "TypeError"}

\* C8: once the download succeeds the value returned is exactly
\* results.transcripts[0].transcript of the downloaded file parsed as JSON;
\* a file that is malformed JSON or lacks that path makes the workflow raise
\* to the caller, with no further polling or download.
C8_ResultExtraction ==
    Uploading =>
        /\ \A i \in 1..Len(trace) :
             (trace[i].op = "download_file" /\ trace[i].res = "ok") => i = Len(trace)
        /\ (pc \in {"returned", "raised"} /\ opened # <<>>) =>
             \E e \in fs :
                /\ e.path = downloadReqs[Len(downloadReqs)].Filename
                /\ IF \E x \in ExpectedTranscripts : x[1] = e.content
                   THEN /\ pc = "returned"
                        /\ <<e.content, result>> \in ExpectedTranscripts
                   ELSE /\ pc = "raised"
                        /\ raised \in ExtractionErrors

\* the transcript of the first of two transcripts was returned
C8_Witness ==
    /\ Uploading /\ pc = "returned"
    /\ result = <<Str("first")>>
    /\ \E e \in fs : e.content = DocTwoTranscripts

\* C9: create_vocabulary sends exactly one create request, with the name,
\* the language code and: Phrases only when phrases is supplied (with or
\* without table_uri), VocabularyFileUri only when phrases is absent and
\* table_uri supplied, neither when both are absent.
C9_CreateArguments ==
    /\ Len(vocabReqs) <= 1
    /\ (Creating /\ pc \in {"returned", "raised"}) =>
         /\ Len(vocabReqs) = 1
         /\ vocabReqs[1] =
              {<<"VocabularyName", vocabulary_name>>, <<"LanguageCode", language_code>>}
                \cup (CASE phrases # None -> {<<"Phrases", phrases>>}
                        [] phrases = None /\ table_uri # None ->
                               {<<"VocabularyFileUri", table_uri>>}
                        [] OTHER -> {})

\* both phrases and table_uri were supplied
C9_Witness ==
    /\ Creating /\ pc = "returned"
    /\ phrases # None /\ table_uri # None
    /\ Len(vocabReqs) = 1

\* C10: create_vocabulary is fail-fast: an error of the create request is
\* re-raised to the caller and no value is returned; on success the
\* provider's response is returned unchanged; the request is never retried.
C10_CreateFailFast ==
    Creating =>
        /\ Count("create_vocabulary") <= 1
        /\ \A i \in 1..Len(trace) :
             IF Failed(trace[i])
             THEN pc = "raised" /\ raised = trace[i].res /\ result = None
             ELSE pc = "returned" /\ result = provided /\ raised = None
                  /\ result \in CreateResponses(vocabulary_name, language_code)

\* the provider refused the request
C10_Witness ==
    /\ Creating /\ pc = "raised"
    /\ raised = "EndpointConnectionError"
    /\ Len(vocabReqs) = 1

\* C11: the completion wait has no bound and no error distinction: every
\* download failure, of any kind, is swallowed and followed by a one-second
\* sleep and another attempt, so as long as no download has succeeded the
\* workflow neither returns nor raises; once a download succeeds the loop
\* is left.
C11_WaitOnlyEndsOnSuccess ==
    (Uploading /\ jobReqs # <<>> /\ trace[Len(trace)].op # "start_transcription_job") =>
        LET downloaded == \E i \in 1..Len(trace) :
                              trace[i].op = "download_file" /\ trace[i].res = "ok"
        IN  /\ ~downloaded => (pc \in {"download_file", "sleep"}
                                /\ raised = None /\ result = None)
            /\ downloaded => pc \notin {"download_file", "sleep"}
            /\ \A i \in 1..Len(trace) :
                 (trace[i].op = "download_file" /\ Failed(trace[i])) =>
                    IF i = Len(trace) THEN pc = "sleep"
                    ELSE trace[i + 1] = [op |-> "sleep", res |-> "ok", secs |-> 1]

\* every attempt the model follows failed, with errors of both kinds, and
\* the workflow is about to sleep and try again
C11_Witness ==
    /\ Uploading /\ pc = "sleep"
    /\ Len(downloadReqs) = MaxPolls
    /\ \E i, j \in 1..Len(Polls) :
         Polls[i].res = "ClientError" /\ Polls[j].res = "EndpointConnectionError"

C13_CallOrder ==
    Uploading =>
        /\ \A i \in 1..Len(trace) :
             trace[i].op \in {"create_bucket", "upload_file",
                              "start_transcription_job", "download_file", "sleep"}
        /\ \A op \in {"create_bucket", "upload_file", "start_transcription_job"} :
             Count(op) <= 1
        /\ \A i \in 1..Len(trace) :
             /\ trace[i].op = "create_bucket" => i = 1
             /\ trace[i].op = "upload_file" =>
                  (i = 2 /\ trace[1].op = "create_bucket")
             /\ trace[i].op = "start_transcription_job" =>
                  (i = 3 /\ trace[2] = [op |-> "upload_file", res |-> "ok", secs |-> 0])
             /\ trace[i].op = "download_file" =>
                  (i > 3 /\ trace[3] = [op |-> "start_transcription_job",
                                        res |-> "ok", secs |-> 0])

\* a run that went through all four kinds of call and polled more than once
C13_Witness ==
    /\ Uploading /\ pc = "returned"
    /\ Count("create_bucket") = 1 /\ Count("upload_file") = 1
    /\ Count("start_transcription_job") = 1 /\ Count("download_file") = 2

\* the object key named by an s3://bucket/key URI built by MediaFileUri
KeyOfUri(uri) == SubSeq(uri, 4, Len(uri))

\* C15: for every input path the object key named by the MediaFileUri of
\* the submitted job equals the key under which upload_file stored the file
\* in the same bucket, also for paths that contain a directory separator.
C15_JobReadsUploadedObject ==
    \A i \in 1..Len(jobReqs) :
        /\ Len(uploadReqs) = 1
        /\ jobReqs[i].MediaFileUri[2] = uploadReqs[1].Bucket
        /\ KeyOfUri(jobReqs[i].MediaFileUri) = uploadReqs[1].Key

\* C14: a submitted job is named transcribing_<stem>_<unix-second>; two
\* invocations for the same input file send distinct job names whenever
\* they submit in different Unix seconds and the identical job name when
\* they submit within the same second.
C14_JobNames ==
    \A i, j \in 1..Len(submitted) :
        /\ submitted[i].name =
              <<"transcribing_">> \o StemBeforeFirstDot(submitted[i].file)
                                  \o <<"_", ToString(submitted[i].at)>>
        /\ (i # j /\ submitted[i].file = submitted[j].file) =>
              /\ submitted[i].at # submitted[j].at => submitted[i].name # submitted[j].name
              /\ submitted[i].at = submitted[j].at => submitted[i].name = submitted[j].name

\* two invocations submitted for the same file within the same second
C14_Witness ==
    /\ Len(submitted) = 2
    /\ submitted[1].by = 1 /\ submitted[2].by = 2
    /\ submitted[1].file = submitted[2].file
    /\ submitted[1].at = submitted[2].at
    /\ submitted[1].name = submitted[2].name

\* C16: over any sequence of invocations on the same bucket with the same
\* input file name, the transcript an invocation returns comes from an
\* output object written by the job this invocation submitted, never from
\* one left in the bucket by an earlier invocation's job.
C16_OwnOutputReturned ==
    (Uploading /\ pc = "returned") =>
        \A e \in fs : e.path = opened[Len(opened)] => e.by = inv
====
